---- MODULE Spec2Model ----
(***************************************************************************)
(* Model of src/TestRunner.py: the result-capturing layer over unittest.   *)
(*                                                                         *)
(* Text is a sequence of units.  A unit is one whitespace character (" "   *)
(* or "\n") or a chunk of non-whitespace characters.  No chunk used for a  *)
(* value or an exception text occurs inside another chunk, so containment  *)
(* and strip() on unit sequences agree with the same operations on the     *)
(* characters.                                                            *)
(*                                                                         *)
(* A Python object is a record [type, text]: its type name and its str().  *)
(***************************************************************************)
EXTENDS Integers, Sequences, FiniteSets, TLC

VARIABLES
    storage,     \* TEST_RESULTS_STORAGE
    storageRun,  \* history: for each record of storage, the run that appended it
    cur,         \* test._current_test_data of the test being run
    pc,          \* position of the engine inside run_test_class / TestCase.run
    test,        \* the test method being run: name, decorator and its arguments
    suite,       \* names of the test methods still to run
    success,     \* unittest's outcome.success of the test being run
    calls,       \* helper calls made by the body so far
    bodyOut,     \* history: how the (undecorated) test body ended
    base,        \* history: Len(storage) when the test started
    lastCall,    \* history: the last helper call and how it ended
    lastErr,     \* history: the exception given to the last terminal hook
    authorMsg,   \* history: the test's author supplied a message
    run,         \* number of calls of run_test_class so far
    requested,   \* the test_class_name of the last call of run_test_class
    execRun,     \* history: the last call that made an EnhancedTestResult
    cleared,     \* history: the records that EnhancedTestResult dropped
    ret,         \* what the last call of run_test_class returned, or the
                 \* exception that left it
    printed      \* what print_detailed_results printed in the last call: the
                 \* texts of its print() calls, a text with end="" being
                 \* joined to the one after it

vars == <<storage, storageRun, cur, pc, test, suite, success, calls, bodyOut,
          base, lastCall, lastErr, authorMsg, run, requested, execRun, cleared,
          ret, printed>>

----------------------------------------------------------------------------
(* Bounds *)

MaxRuns == 2
MaxCalls == 2
MaxNameLen == 5

----------------------------------------------------------------------------
(* Text *)

IsSpace(u) == u \in {" ", "\n"}

RECURSIVE LStrip(_)
LStrip(t) == IF t # <<>> /\ IsSpace(Head(t)) THEN LStrip(Tail(t)) ELSE t

RECURSIVE RStrip(_)
RStrip(t) ==
    IF t # <<>> /\ IsSpace(t[Len(t)]) THEN RStrip(SubSeq(t, 1, Len(t) - 1)) ELSE t

\* str.strip()
Strip(t) == RStrip(LStrip(t))

\* p in t, for two texts
Contains(t, p) ==
    \E i \in 0..(Len(t) - Len(p)) : SubSeq(t, i + 1, i + Len(p)) = p

RECURSIVE Words(_)
\* the text of a literal: its words with one space between them
Words(w) ==
    IF Len(w) <= 1 THEN w ELSE <<Head(w), " ">> \o Words(Tail(w))

----------------------------------------------------------------------------
(* Python objects *)

PyNone == [type |-> "NoneType", text |-> <<"None">>]
PyStr(t) == [type |-> "str", text |-> t]
PyInt(u) == [type |-> "int", text |-> <<u>>]

\* str(v)
Str(v) == v.text

\* bool(v), as used by "if message" and "not message"
Truthy(v) ==
    CASE v.type = "NoneType" -> FALSE
      [] v.type = "str" -> v.text # <<>>
      [] v.type = "int" -> v.text # <<"0">>
      [] OTHER -> TRUE

\* the integer an int object holds
NumOf(v) ==
    CASE v.text = <<"0">> -> 0
      [] v.text = <<"5">> -> 5
      [] v.text = <<"12">> -> 12
      [] v.text = <<"15">> -> 15
      [] v.text = <<"17">> -> 17

\* An exception object: its class and str(e).  AssertionError is unittest's
\* failureException; SystemExit derives from BaseException, not Exception.
Exc(cls, t) == [cls |-> cls, text |-> t]
NoExc == [cls |-> "", text |-> <<>>]
IsAssertionError(e) == e.cls = "AssertionError"
IsException(e) == e.cls \notin {"", "SystemExit"}

----------------------------------------------------------------------------
(* The inputs: values, messages and exceptions of the tests *)

Values == {PyInt("15"), PyInt("12"), PyStr(<<"15", "\n">>), PyNone}

CustomMessage == PyStr(Words(<<"Check", "the", "sum">>))
TearDownMessage == PyStr(Words(<<"Cleaned", "up">>))
\* no message, the empty message, a message that is no string and is false,
\* and a message
Messages == {PyNone, PyStr(<<>>), PyInt("0"), CustomMessage}

ZeroDivision == Exc("ZeroDivisionError", Words(<<"division", "by", "zero">>))
UserAssertion == Exc("AssertionError", Words(<<"lists", "differ">>))
SysExit == Exc("SystemExit", <<"1">>)
TearDownErr == Exc("RuntimeError", Words(<<"teardown", "failed">>))
BodyExceptions == {ZeroDivision, UserAssertion, SysExit}

----------------------------------------------------------------------------
(* EnhancedTestResult *)

NoData == [absent |-> TRUE]

LowerChars ==
    <<"a", "b", "c", "d", "e", "f", "g", "h", "i", "j", "k", "l", "m",
      "n", "o", "p", "q", "r", "s", "t", "u", "v", "w", "x", "y", "z">>
UpperChars ==
    <<"A", "B", "C", "D", "E", "F", "G", "H", "I", "J", "K", "L", "M",
      "N", "O", "P", "Q", "R", "S", "T", "U", "V", "W", "X", "Y", "Z">>

IndexIn(c, s) == CHOOSE i \in 1..Len(s) : s[i] = c
\* str.isupper(), str.islower(), str.lower(), str.upper() of one character
IsUpper(c) == \E i \in 1..Len(UpperChars) : UpperChars[i] = c
IsLower(c) == \E i \in 1..Len(LowerChars) : LowerChars[i] = c
Lower(c) == IF IsUpper(c) THEN LowerChars[IndexIn(c, UpperChars)] ELSE c
Upper(c) == IF IsLower(c) THEN UpperChars[IndexIn(c, LowerChars)] ELSE c

\* method_name.startswith(prefix), on sequences of characters
StartsWith(s, prefix) ==
    Len(s) >= Len(prefix) /\ SubSeq(s, 1, Len(prefix)) = prefix

RECURSIVE DescribeFrom(_, _)
\* the loop of _method_name_to_description from index i (1-based) on
DescribeFrom(name, i) ==
    IF i > Len(name) THEN <<>>
    ELSE LET char == name[i]
             piece == IF char = "_" THEN <<" ">>
                      ELSE IF IsUpper(char) /\ i > 1 /\ IsLower(name[i - 1])
                           THEN <<" ", Lower(char)>>
                           ELSE IF i > 1 THEN <<Lower(char)>> ELSE <<Upper(char)>>
         IN  piece \o DescribeFrom(name, i + 1)

\* _method_name_to_description that keeps the prefix
_method_name_to_description_KeepPrefix(method_name) ==
    DescribeFrom(method_name, 1)

\* _method_name_to_description: method names and descriptions are sequences
\* of characters
_method_name_to_description(method_name) ==
    LET name == IF StartsWith(method_name, <<"t", "e", "s", "t", "_">>)
                THEN SubSeq(method_name, 6, Len(method_name))
                ELSE IF StartsWith(method_name, <<"t", "e", "s", "t">>)
                     THEN SubSeq(method_name, 5, Len(method_name))
                     ELSE method_name
    IN  DescribeFrom(name, 1)

\* startTest: the fresh record of a test
startTest(name, doc, cls) ==
    [name |-> name,
     description |-> IF Truthy(doc) THEN doc
                     ELSE PyStr(_method_name_to_description(name)),
     class_name |-> cls,
     expected |-> PyNone,
     actual |-> PyNone,
     input |-> PyNone,
     message |-> PyNone,
     status |-> "RUNNING"]

SuccessMessage ==
    Words(<<"Great", "job!", "This", "test", "passed", "successfully.">>)

ErrorMessage(error_msg) ==
    Words(<<"Your", "code", "encountered", "an", "unexpected", "error:">>)
    \o <<" ">> \o error_msg \o <<".", " ">>
    \o Words(<<"Check", "your", "syntax", "and", "logic.">>)

FailureMessage(failure_msg) ==
    Words(<<"This", "test", "didn't", "pass.">>)
    \o <<" ">> \o failure_msg \o <<".", " ">>
    \o Words(<<"Review", "the", "expected", "vs", "actual", "values", "to",
               "understand", "what", "went", "wrong.">>)

\* The hooks take and give the pair [data, store]: the test's record and
\* TEST_RESULTS_STORAGE.  store gets a copy of the record.
addSuccess(st) ==
    IF st.data = NoData THEN st
    ELSE LET d1 == [st.data EXCEPT !.status = "PASSED"]
             d2 == IF ~Truthy(d1.message)
                   THEN [d1 EXCEPT !.message = PyStr(SuccessMessage)]
                   ELSE d1
         IN  [data |-> d2, store |-> Append(st.store, d2)]

\* addError that stores a record only for a test that is still RUNNING
addError_OnlyRunning(st, err) ==
    IF st.data = NoData \/ st.data.status # "RUNNING" THEN st
    ELSE LET d1 == [st.data EXCEPT !.status = "ERROR"]
             d2 == IF ~Truthy(d1.message)
                   THEN [d1 EXCEPT !.message = PyStr(ErrorMessage(Strip(Str(err))))]
                   ELSE d1
         IN  [data |-> d2, store |-> Append(st.store, d2)]

\* addError appending the test's dict itself, not a copy of it: the entries
\* that a hook appended for this test before are that same dict
addError_NoCopy(st, err) ==
    IF st.data = NoData THEN st
    ELSE LET d1 == [st.data EXCEPT !.status = "ERROR"]
             d2 == IF ~Truthy(d1.message)
                   THEN [d1 EXCEPT !.message = PyStr(ErrorMessage(Strip(Str(err))))]
                   ELSE d1
         IN  [data |-> d2,
              store |-> Append([i \in 1..Len(st.store) |->
                                   IF st.store[i].name = d2.name THEN d2
                                   ELSE st.store[i]], d2)]

addError(st, err) ==
    IF st.data = NoData THEN st
    ELSE LET d1 == [st.data EXCEPT !.status = "ERROR"]
             error_msg == IF err # NoExc THEN Strip(Str(err))
                          ELSE Words(<<"Unknown", "error">>)
             d2 == IF ~Truthy(d1.message)
                   THEN [d1 EXCEPT !.message = PyStr(ErrorMessage(error_msg))]
                   ELSE d1
         IN  [data |-> d2, store |-> Append(st.store, d2)]

\* addFailure without the default message
addFailure_NoDefault(st, err) ==
    IF st.data = NoData THEN st
    ELSE LET d1 == [st.data EXCEPT !.status = "FAILED"]
         IN  [data |-> d1, store |-> Append(st.store, d1)]

addFailure(st, err) ==
    IF st.data = NoData THEN st
    ELSE LET d1 == [st.data EXCEPT !.status = "FAILED"]
             failure_msg == IF err # NoExc THEN Strip(Str(err))
                            ELSE Words(<<"Test", "failed">>)
             d2 == IF ~Truthy(d1.message)
                   THEN [d1 EXCEPT !.message = PyStr(FailureMessage(failure_msg))]
                   ELSE d1
         IN  [data |-> d2, store |-> Append(st.store, d2)]

----------------------------------------------------------------------------
(* EnhancedTestCase: the helpers act on the test's record d *)

setUp(d) ==
    IF d = NoData THEN d
    ELSE [d EXCEPT !.expected = PyNone, !.actual = PyNone,
                   !.input = PyNone, !.message = PyNone]

\* set_expected_actual that tests its message with "is not None"
set_expected_actual_NotNone(d, expected, actual, message) ==
    IF d = NoData THEN d
    ELSE [d EXCEPT !.expected = PyStr(Str(expected)),
                   !.actual = PyStr(Str(actual)),
                   !.message = IF message # PyNone THEN message ELSE @]

\* set_expected_actual that loses the assignment of actual
set_expected_actual_OnlyExpected(d, expected, actual, message) ==
    IF d = NoData THEN d
    ELSE [d EXCEPT !.expected = PyStr(Str(expected)),
                   !.message = IF Truthy(message) THEN message ELSE @]

set_expected_actual(d, expected, actual, message) ==
    IF d = NoData THEN d
    ELSE [d EXCEPT !.expected = PyStr(Str(expected)),
                   !.actual = PyStr(Str(actual)),
                   !.message = IF Truthy(message) THEN message ELSE @]

RECURSIVE JoinStr(_, _)
\* sep.join(str(x) for x in items)
JoinStr(sep, items) ==
    IF items = <<>> THEN <<>>
    ELSE IF Len(items) = 1 THEN Str(items[1])
         ELSE Str(items[1]) \o sep \o JoinStr(sep, Tail(items))

\* a list object: its items and its str()
PyList(items, t) == [type |-> "list", text |-> t, items |-> items]

RECURSIVE DictItems(_, _)
\* the items of a dict, each key between quotes q, as str() and json.dumps
\* write them
DictItems(items, q) ==
    IF items = <<>> THEN <<>>
    ELSE <<q \o items[1][1] \o q \o ":", " ">> \o Str(items[1][2])
         \o (IF Len(items) > 1 THEN <<",", " ">> \o DictItems(Tail(items), q)
             ELSE <<>>)

\* a dict object with string keys and int values: its items and its str()
PyDict(items) ==
    [type |-> "dict", text |-> <<"{">> \o DictItems(items, "'") \o <<"}">>,
     items |-> items]

\* json.dumps(v) for such a dict
json_dumps(v) == <<"{">> \o DictItems(v.items, "\"") \o <<"}">>

\* The separator of set_input is the two characters backslash and n.
set_input(d, input_value) ==
    IF d = NoData THEN d
    ELSE IF input_value.type = "list"
         THEN [d EXCEPT !.input = PyStr(JoinStr(<<"\\n">>, input_value.items))]
         ELSE IF input_value.type = "dict"
              THEN [d EXCEPT !.input = PyStr(json_dumps(input_value))]
              ELSE [d EXCEPT !.input = PyStr(Str(input_value))]

set_message(d, message) ==
    IF d = NoData THEN d ELSE [d EXCEPT !.message = message]

set_description_and_message(d, description, message) ==
    IF d = NoData THEN d
    ELSE [d EXCEPT !.description = description, !.message = message]

\* self.fail(msg), and raise AssertionError(msg)
Fail(msg) == Exc("AssertionError", msg)

\* What a call gives: the record after it and the exception it raised, if any.
Result(d, e) == [data |-> d, exc |-> e]

\* An argument of the tolerant helpers: a value, or a callable (a producer)
\* with the value it returns or the exception it raises.
DirectValue(v) == [callable |-> FALSE, ret |-> v, exc |-> NoExc]
Returns(v) == [callable |-> TRUE, ret |-> v, exc |-> NoExc]
Raises(e) == [callable |-> TRUE, ret |-> PyNone, exc |-> e]

ExpectedButGot(expected, actual) ==
    <<"Expected", " ">> \o Str(expected) \o <<",", " ", "but", " ", "got", " ">>
    \o Str(actual)

\* the TypeError of calling a value that is no callable
NotCallable(v) ==
    Exc("TypeError", Words(<<"'" \o v.type \o "'", "object", "is", "not",
                             "callable">>))

\* The exception callable_func() ends with: the callable's own, or the
\* TypeError of a value that cannot be called.
CallError(callable_func) ==
    IF callable_func.callable THEN callable_func.exc
    ELSE NotCallable(callable_func.ret)

assertCallAndCapture(d, callable_func, expected, message) ==
    LET e == CallError(callable_func)
    IN  IF e # NoExc
        THEN IF IsAssertionError(e) THEN Result(d, e)
             ELSE IF IsException(e)
                  THEN LET error_msg == PyStr(<<"Error:", " ">> \o Str(e))
                           d1 == set_expected_actual(d, expected, error_msg, message)
                       IN  Result(d1, Fail(<<"Function", " ", "call", " ", "failed:",
                                             " ">> \o Str(e)))
                  ELSE \* not caught by "except Exception": leaves the helper
                       Result(d, e)
        ELSE LET actual == callable_func.ret
                 d1 == set_expected_actual(d, expected, actual, message)
             IN  IF actual # expected
                 THEN Result(d1, Fail(ExpectedButGot(expected, actual)))
                 ELSE Result(d1, NoExc)

assertSafeCallAndCapture(d, callable_or_value, expected, message) ==
    IF callable_or_value.exc # NoExc /\ ~IsException(callable_or_value.exc)
    THEN \* not caught by "except Exception": leaves the helper
         Result(d, callable_or_value.exc)
    ELSE LET error_occurred == callable_or_value.exc # NoExc
             actual == IF error_occurred
                       THEN PyStr(<<"Runtime", " ", "error:", " ">>
                                  \o Str(callable_or_value.exc))
                       ELSE callable_or_value.ret
             d1 == set_expected_actual(d, expected, actual, message)
         IN  IF error_occurred
             THEN Result(d1, Fail(<<"Test", " ", "execution", " ", "failed:", " ">>
                                  \o Str(actual)))
             ELSE IF actual # expected
                  THEN Result(d1, Fail(ExpectedButGot(expected, actual)))
                  ELSE Result(d1, NoExc)

\* The handler "except Exception" of safe_test_wrapper, which also catches the
\* AssertionError of its own self.fail.
safe_test_wrapper_except(d, e, expected, message) ==
    LET error_msg == PyStr(<<"Error:", " ">> \o Str(e))
        d1 == set_expected_actual(d, expected, error_msg, message)
    IN  Result(d1, Fail(<<"Test", " ", "failed", " ", "with", " ", "error:", " ">>
                        \o Str(e)))

safe_test_wrapper(d, test_func, expected, message) ==
    IF test_func.exc # NoExc
    THEN IF IsException(test_func.exc)
         THEN safe_test_wrapper_except(d, test_func.exc, expected, message)
         ELSE Result(d, test_func.exc)
    ELSE LET actual == test_func.ret
             d1 == set_expected_actual(d, expected, actual, message)
         IN  IF actual # expected
             THEN safe_test_wrapper_except(
                      d1, Fail(ExpectedButGot(expected, actual)), expected, message)
             ELSE Result(d1, NoExc)

----------------------------------------------------------------------------
(* The decorators.  Each wrapper is entered (the input is recorded), runs *)
(* the test method, whose outcome is out = [ret, exc], and is left.       *)

\* a test method's outcome
Returned(v) == [ret |-> v, exc |-> NoExc]
Raised(e) == [ret |-> PyNone, exc |-> e]

\* a wrapper that does not record its input
wrapper_enter_NoInput(d, input_value) == d

\* "if input_value is not None: self.set_input(input_value)"
wrapper_enter(d, input_value) ==
    IF input_value # PyNone THEN set_input(d, input_value) ELSE d

\* "except Exception as e" of a wrapper whose expected is rendered as expected
wrapper_except(d, expected, e, message) ==
    LET error_msg == PyStr(<<"Error:", " ">> \o Str(e))
        d1 == set_expected_actual(d, expected, error_msg, message)
    IN  Result(d1, Fail(<<"Test", " ", "failed", " ", "with", " ", "error:", " ">>
                        \o Str(e)))

\* The except clauses of a wrapper, for an exception e raised inside its try:
\* an AssertionError is raised again, another Exception is reported as a
\* failure, and anything else leaves the wrapper.
wrapper_handlers(d, expected, e, message) ==
    IF IsAssertionError(e) THEN Result(d, e)
    ELSE IF IsException(e) THEN wrapper_except(d, expected, e, message)
         ELSE Result(d, e)

\* a op b of Python for the objects of the model: the TypeError it raises,
\* or NoExc
CompareError(op, a, b) ==
    IF a.type = "int" /\ b.type = "int" THEN NoExc
    ELSE Exc("TypeError",
             Words(<<"'" \o op \o "'", "not", "supported", "between", "instances",
                     "of", "'" \o a.type \o "'", "and", "'" \o b.type \o "'">>))

Compare(op, a, b) ==
    CASE op = ">=" -> NumOf(a) >= NumOf(b)
      [] op = "<=" -> NumOf(a) <= NumOf(b)
      [] op = ">" -> NumOf(a) > NumOf(b)
      [] op = "<" -> NumOf(a) < NumOf(b)

safe_test(d, expected, message, out) ==
    IF out.exc # NoExc THEN wrapper_handlers(d, expected, out.exc, message)
    ELSE LET actual == out.ret
             d1 == set_expected_actual(d, expected, actual, message)
         IN  IF actual # expected
             THEN Result(d1, Fail(ExpectedButGot(expected, actual)))
             ELSE Result(d1, NoExc)

safe_contains(d, expected_substring, message, out) ==
    LET expected == PyStr(<<"contains", " ", "'">> \o Str(expected_substring)
                          \o <<"'">>)
    IN  IF out.exc # NoExc THEN wrapper_handlers(d, expected, out.exc, message)
        ELSE LET actual == out.ret
                 d1 == set_expected_actual(d, expected, actual, message)
             IN  IF ~Contains(Str(actual), Str(expected_substring))
                 THEN Result(d1, Fail(<<"Expected", " ", "'">> \o Str(actual)
                                      \o <<"'", " ", "to", " ", "contain", " ", "'">>
                                      \o Str(expected_substring) \o <<"'">>))
                 ELSE Result(d1, NoExc)

\* the four ordering wrappers differ in the operator and in the words of the
\* failure
safe_compare(d, op, words, bound, message, out) ==
    LET expected == PyStr(<<op, " ">> \o Str(bound))
    IN  IF out.exc # NoExc THEN wrapper_handlers(d, expected, out.exc, message)
        ELSE LET actual == out.ret
                 d1 == set_expected_actual(d, expected, actual, message)
             IN  IF CompareError(op, actual, bound) # NoExc
                 THEN wrapper_handlers(d1, expected,
                                       CompareError(op, actual, bound), message)
                 ELSE IF ~Compare(op, actual, bound)
                      THEN Result(d1, Fail(<<"Expected", " ">> \o Str(actual)
                                           \o <<" ", "to", " ", "be", " ">> \o words
                                           \o <<" ">> \o Str(bound)))
                      ELSE Result(d1, NoExc)

safe_greater_equal(d, expected_min, message, out) ==
    safe_compare(d, ">=", <<">=">>, expected_min, message, out)

safe_less_equal(d, expected_max, message, out) ==
    safe_compare(d, "<=", <<"<=">>, expected_max, message, out)

safe_greater(d, expected_min, message, out) ==
    safe_compare(d, ">", Words(<<"greater", "than">>), expected_min, message, out)

safe_less(d, expected_max, message, out) ==
    safe_compare(d, "<", Words(<<"less", "than">>), expected_max, message, out)

\* expected_type is a type object; its text is its __name__
PyType(n) == [type |-> "type", text |-> <<n>>]

safe_instance(d, expected_type, message, out) ==
    LET expected == PyStr(<<"instance", " ", "of", " ">> \o expected_type.text)
    IN  IF out.exc # NoExc THEN wrapper_handlers(d, expected, out.exc, message)
        ELSE LET actual == out.ret
                 d1 == set_expected_actual(d, expected, PyStr(<<actual.type>>),
                                           message)
             IN  IF actual.type # expected_type.text[1]
                 THEN Result(d1, Fail(<<"Expected", " ">> \o Str(actual)
                                      \o <<" ", "to", " ", "be", " ", "instance", " ",
                                           "of", " ">> \o expected_type.text
                                      \o <<",", " ", "got", " ", actual.type>>))
                 ELSE Result(d1, NoExc)

safe_none(d, message, out) ==
    IF out.exc # NoExc THEN wrapper_handlers(d, PyStr(<<"None">>), out.exc, message)
    ELSE LET actual == out.ret
             d1 == set_expected_actual(d, PyStr(<<"None">>), PyStr(Str(actual)),
                                       message)
         IN  IF actual # PyNone
             THEN Result(d1, Fail(<<"Expected", " ", "None,", " ", "but", " ",
                                    "got", " ">> \o Str(actual)))
             ELSE Result(d1, NoExc)

Decorators ==
    {"safe_test", "safe_contains", "safe_greater_equal", "safe_less_equal",
     "safe_instance", "safe_none", "safe_greater", "safe_less"}

\* the argument each decorator is given in the test classes
DecoratorArg(dec) ==
    CASE dec = "safe_contains" -> PyStr(<<"15">>)
      [] dec = "safe_instance" -> PyType("int")
      [] dec = "safe_none" -> PyNone
      [] dec \in {"safe_greater", "safe_less_equal"} -> PyInt("12")
      [] OTHER -> PyInt("15")

\* leaving the wrapper of decorator dec
wrapper_exit(dec, d, arg, message, out) ==
    CASE dec = "safe_test" -> safe_test(d, arg, message, out)
      [] dec = "safe_contains" -> safe_contains(d, arg, message, out)
      [] dec = "safe_greater_equal" -> safe_greater_equal(d, arg, message, out)
      [] dec = "safe_less_equal" -> safe_less_equal(d, arg, message, out)
      [] dec = "safe_instance" -> safe_instance(d, arg, message, out)
      [] dec = "safe_none" -> safe_none(d, message, out)
      [] dec = "safe_greater" -> safe_greater(d, arg, message, out)
      [] dec = "safe_less" -> safe_less(d, arg, message, out)
      [] OTHER -> Result(d, out.exc)

----------------------------------------------------------------------------
(* EnhancedTestCase: the assert-and-capture helpers.  Each gives the record *)
(* after the call and the exception the call raised.                       *)

\* repr(v), for the objects of the model (no string with a line break)
Repr(v) == IF v.type = "str" THEN <<"'">> \o v.text \o <<"'">> ELSE v.text

\* str(True), str(False)
PyBool(b) == PyStr(<<IF b THEN "True" ELSE "False">>)

\* the TypeError of "x in v" for a v that is no container
NotIterable(v) ==
    Exc("TypeError",
        Words(<<"argument", "of", "type", "'" \o v.type \o "'", "is", "not",
                "iterable">>))

\* member in container, for a list
In(member, container) ==
    \E i \in 1..Len(container.items) : container.items[i] = member

\* assertEqualAndCapture that asserts before it records
assertEqualAndCapture_AssertFirst(d, actual, expected, message) ==
    IF actual # expected
    THEN Result(d, Fail(Repr(actual) \o <<" ", "!=", " ">> \o Repr(expected)))
    ELSE Result(set_expected_actual(d, expected, actual, message), NoExc)

assertEqualAndCapture(d, actual, expected, message) ==
    LET d1 == set_expected_actual(d, expected, actual, message)
    IN  IF actual # expected
        THEN Result(d1, Fail(Repr(actual) \o <<" ", "!=", " ">> \o Repr(expected)))
        ELSE Result(d1, NoExc)

\* "member in container" is evaluated for the call of set_expected_actual
assertInAndCapture(d, member, container, message) ==
    IF container.type # "list" THEN Result(d, NotIterable(container))
    ELSE LET d1 == set_expected_actual(
                       d, PyStr(<<"'">> \o Str(member)
                                \o <<"'", " ", "in", " ", "container">>),
                       PyBool(In(member, container)), message)
         IN  IF ~In(member, container)
             THEN Result(d1, Fail(Repr(member)
                                  \o <<" ", "not", " ", "found", " ", "in", " ">>
                                  \o Repr(container)))
             ELSE Result(d1, NoExc)

assertNotInAndCapture(d, member, container, message) ==
    IF container.type # "list" THEN Result(d, NotIterable(container))
    ELSE LET d1 == set_expected_actual(
                       d, PyStr(<<"'">> \o Str(member)
                                \o <<"'", " ", "not", " ", "in", " ", "container">>),
                       PyBool(~In(member, container)), message)
         IN  IF In(member, container)
             THEN Result(d1, Fail(Repr(member)
                                  \o <<" ", "unexpectedly", " ", "found", " ", "in",
                                       " ">> \o Repr(container)))
             ELSE Result(d1, NoExc)

assertContainsAndCapture(d, text, substring, message) ==
    LET d1 == set_expected_actual(
                  d, PyStr(<<"text", " ", "containing", " ", "'">> \o Str(substring)
                           \o <<"'">>),
                  PyStr(<<"'">> \o Str(text) \o <<"'">>), message)
    IN  IF text.type # "str" THEN Result(d1, NotIterable(text))
        ELSE IF ~Contains(text.text, substring.text)
             THEN Result(d1, Fail(Repr(substring)
                                  \o <<" ", "not", " ", "found", " ", "in", " ">>
                                  \o Repr(text)))
             ELSE Result(d1, NoExc)

\* the four ordering helpers differ in the operator and in the words of
\* unittest's failure
assertCompareAndCapture(d, op, words, a, b, message) ==
    LET d1 == set_expected_actual(d, PyStr(<<"value", " ", op, " ">> \o Str(b)),
                                  PyStr(Str(a)), message)
    IN  IF CompareError(op, a, b) # NoExc THEN Result(d1, CompareError(op, a, b))
        ELSE IF ~Compare(op, a, b)
             THEN Result(d1, Fail(Repr(a) \o <<" ">> \o words \o <<" ">> \o Repr(b)))
             ELSE Result(d1, NoExc)

assertGreaterAndCapture(d, a, b, message) ==
    assertCompareAndCapture(d, ">", Words(<<"not", "greater", "than">>), a, b,
                            message)

assertLessAndCapture(d, a, b, message) ==
    assertCompareAndCapture(d, "<", Words(<<"not", "less", "than">>), a, b, message)

assertGreaterEqualAndCapture(d, a, b, message) ==
    assertCompareAndCapture(
        d, ">=", Words(<<"not", "greater", "than", "or", "equal", "to">>), a, b,
        message)

assertLessEqualAndCapture(d, a, b, message) ==
    assertCompareAndCapture(
        d, "<=", Words(<<"not", "less", "than", "or", "equal", "to">>), a, b,
        message)

assertIsInstanceAndCapture(d, obj, cls, message) ==
    LET d1 == set_expected_actual(d, PyStr(<<"instance", " ", "of", " ">> \o cls.text),
                                  PyStr(<<obj.type>>), message)
    IN  IF obj.type # cls.text[1]
        THEN Result(d1, Fail(Repr(obj)
                             \o Words(<<"", "is", "not", "an", "instance", "of",
                                        "<class">>)
                             \o <<" ", "'" \o cls.text[1] \o "'>">>))
        ELSE Result(d1, NoExc)

assertIsNoneAndCapture(d, obj, message) ==
    LET d1 == set_expected_actual(d, PyStr(<<"None">>), PyStr(Str(obj)), message)
    IN  IF obj # PyNone
        THEN Result(d1, Fail(Repr(obj) \o <<" ", "is", " ", "not", " ", "None">>))
        ELSE Result(d1, NoExc)

AssertAndCapture ==
    {"assertEqualAndCapture", "assertInAndCapture", "assertNotInAndCapture",
     "assertContainsAndCapture", "assertGreaterAndCapture", "assertLessAndCapture",
     "assertGreaterEqualAndCapture", "assertLessEqualAndCapture",
     "assertIsInstanceAndCapture", "assertIsNoneAndCapture"}

\* the call op(a, b, message) of an assert-and-capture helper; the helper for
\* nullity takes a alone
assert_and_capture(op, d, a, b, message) ==
    CASE op = "assertEqualAndCapture" -> assertEqualAndCapture(d, a, b, message)
      [] op = "assertInAndCapture" -> assertInAndCapture(d, a, b, message)
      [] op = "assertNotInAndCapture" -> assertNotInAndCapture(d, a, b, message)
      [] op = "assertContainsAndCapture" ->
             assertContainsAndCapture(d, a, b, message)
      [] op = "assertGreaterAndCapture" -> assertGreaterAndCapture(d, a, b, message)
      [] op = "assertLessAndCapture" -> assertLessAndCapture(d, a, b, message)
      [] op = "assertGreaterEqualAndCapture" ->
             assertGreaterEqualAndCapture(d, a, b, message)
      [] op = "assertLessEqualAndCapture" ->
             assertLessEqualAndCapture(d, a, b, message)
      [] op = "assertIsInstanceAndCapture" ->
             assertIsInstanceAndCapture(d, a, b, message)
      [] op = "assertIsNoneAndCapture" -> assertIsNoneAndCapture(d, a, message)

----------------------------------------------------------------------------
(* The test classes and modules a run can name *)

test_add_two_numbers ==
    <<"t", "e", "s", "t", "_", "a", "d", "d", "_", "t", "w", "o", "_",
      "n", "u", "m", "b", "e", "r", "s">>
testAddTwo == <<"t", "e", "s", "t", "A", "d", "d", "T", "w", "o">>
test_x == <<"t", "e", "s", "t", "_", "x">>

\* modules importlib can import, and those that hold a class of their own name
Importable == {"MainTests", "OtherTests", "json", "ExitTests"}
WithClass == {"MainTests", "OtherTests", "ExitTests"}
ClassNames == Importable \cup {"NoSuchTests"}

\* modules whose code calls sys.exit() when it is imported
ExitsOnImport == {"ExitTests"}

\* loader.loadTestsFromTestCase(test_class): the test methods, in name order
TestMethods(cls) ==
    CASE cls = "MainTests" -> <<testAddTwo, test_add_two_numbers>>
      [] cls = "OtherTests" -> <<test_x>>

\* the documentation string of an undecorated test method
TestDoc(name) ==
    IF name = test_x THEN PyStr(Words(<<"Checks", "x">>)) ELSE PyNone

InputList == PyList(<<PyInt("10"), PyInt("5")>>, <<"[10,", " ", "5]">>)
InputDict == PyDict(<<<<"a", PyInt("10")>>, <<"b", PyInt("5")>>>>)

\* The decorators a test method may carry: the methods of MainTests are
\* decorated, the method of OtherTests calls the helpers itself.
MethodDecorators(name) ==
    CASE name = testAddTwo -> {"safe_test"}
      [] name = test_add_two_numbers -> Decorators
      [] OTHER -> {"none"}

\* the message and input_value given to a decorator
DecoratorOptions ==
    {[message |-> PyNone, input_value |-> PyNone],
     [message |-> CustomMessage, input_value |-> InputList]}

NoTest ==
    [name |-> <<>>, dec |-> "none", arg |-> PyNone, message |-> PyNone,
     input_value |-> PyNone]
NoOut == [ret |-> PyNone, exc |-> NoExc, none |-> TRUE]
NoCall == [op |-> "", arg |-> DirectValue(PyNone), expected |-> PyNone,
           message |-> PyNone, exc |-> NoExc]
NoRet == [none |-> TRUE]
NoSuite == [cls |-> "", methods |-> <<>>]

----------------------------------------------------------------------------
(* unittest: the protocol by which TestCase.run drives the hooks *)

\* unittest reports an exception of a test part: addFailure for the test's
\* failureException, addError for anything else
report(st, e) ==
    IF e = NoExc THEN st
    ELSE IF IsAssertionError(e) THEN addFailure(st, e) ELSE addError(st, e)

\* storageRun for a storage grown to length n during the current run
Stamp(n) == storageRun \o [i \in 1..(n - Len(storageRun)) |-> run]

Init ==
    /\ storage = <<>>
    /\ storageRun = <<>>
    /\ cur = NoData
    /\ pc = "idle"
    /\ test = NoTest
    /\ suite = NoSuite
    /\ success = TRUE
    /\ calls = 0
    /\ bodyOut = NoOut
    /\ base = 0
    /\ lastCall = NoCall
    /\ lastErr = NoExc
    /\ authorMsg = FALSE
    /\ run = 0
    /\ requested = ""
    /\ execRun = 0
    /\ cleared = 0
    /\ ret = NoRet
    /\ printed = <<>>

----------------------------------------------------------------------------
(* run_test_class *)

NotFoundError(test_class_name) ==
    <<"Test", " ", "class", " ", "'", test_class_name, "'", " ", "not", " ",
      "found">>

\* str() of the AttributeError of getattr(module, test_class_name)
AttributeErrorText(test_class_name) ==
    <<"module", " ", "'", test_class_name, "'", " ", "has", " ", "no", " ",
      "attribute", " ", "'", test_class_name, "'">>

\* run_test_class making its EnhancedTestResult before it looks the class up
run_test_class_ImportError_Resets(test_class_name) ==
    /\ pc = "idle" /\ run < MaxRuns
    /\ test_class_name \notin Importable
    /\ run' = run + 1
    /\ requested' = test_class_name
    /\ ret' = [error |-> NotFoundError(test_class_name)]
    /\ printed' = <<>>
    /\ storage' = <<>>
    /\ storageRun' = <<>>
    /\ UNCHANGED <<cur, pc, test, suite, success, calls, bodyOut, base, lastCall,
                   lastErr, authorMsg, execRun, cleared>>

\* import_module raises ImportError
run_test_class_ImportError(test_class_name) ==
    /\ pc = "idle" /\ run < MaxRuns
    /\ test_class_name \notin Importable
    /\ run' = run + 1
    /\ requested' = test_class_name
    /\ ret' = [error |-> NotFoundError(test_class_name)]
    /\ printed' = <<>>
    /\ UNCHANGED <<storage, storageRun, cur, pc, test, suite, success, calls,
                   bodyOut, base, lastCall, lastErr, authorMsg, execRun, cleared>>

\* getattr raises AttributeError, caught by "except Exception"
run_test_class_Exception(test_class_name) ==
    /\ pc = "idle" /\ run < MaxRuns
    /\ test_class_name \in Importable \ WithClass
    /\ run' = run + 1
    /\ requested' = test_class_name
    /\ ret' = [error |-> AttributeErrorText(test_class_name)]
    /\ printed' = <<>>
    /\ UNCHANGED <<storage, storageRun, cur, pc, test, suite, success, calls,
                   bodyOut, base, lastCall, lastErr, authorMsg, execRun, cleared>>

\* The module's code raises SystemExit while import_module runs it: neither
\* handler of run_test_class catches it.
run_test_class_SystemExit(test_class_name) ==
    /\ pc = "idle" /\ run < MaxRuns
    /\ test_class_name \in ExitsOnImport
    /\ run' = run + 1
    /\ requested' = test_class_name
    /\ ret' = [raised |-> SysExit]
    /\ printed' = <<>>
    /\ UNCHANGED <<storage, storageRun, cur, pc, test, suite, success, calls,
                   bodyOut, base, lastCall, lastErr, authorMsg, execRun, cleared>>

\* run_test_class whose EnhancedTestResult keeps TEST_RESULTS_STORAGE
run_test_class_run_NoReset(test_class_name) ==
    /\ pc = "idle" /\ run < MaxRuns
    /\ test_class_name \in WithClass \ ExitsOnImport
    /\ run' = run + 1
    /\ requested' = test_class_name
    /\ execRun' = run + 1
    /\ cleared' = Len(storage)
    /\ suite' = [cls |-> test_class_name, methods |-> TestMethods(test_class_name)]
    /\ pc' = "running"
    /\ ret' = NoRet
    /\ printed' = <<>>
    /\ UNCHANGED <<storage, storageRun, cur, test, success, calls, bodyOut, base,
                   lastCall, lastErr, authorMsg>>

\* The class is found, the suite is loaded and runner.run makes the
\* EnhancedTestResult, whose __init__ rebinds TEST_RESULTS_STORAGE.
run_test_class_run(test_class_name) ==
    /\ pc = "idle" /\ run < MaxRuns
    /\ test_class_name \in WithClass \ ExitsOnImport
    /\ run' = run + 1
    /\ requested' = test_class_name
    /\ execRun' = run + 1
    /\ cleared' = Len(storage)
    /\ storage' = <<>>
    /\ storageRun' = <<>>
    /\ suite' = [cls |-> test_class_name, methods |-> TestMethods(test_class_name)]
    /\ pc' = "running"
    /\ ret' = NoRet
    /\ printed' = <<>>
    /\ UNCHANGED <<cur, test, success, calls, bodyOut, base, lastCall, lastErr,
                   authorMsg>>

\* the line for one record with the Input segment printed for every record
ResultLine_AlwaysInput(result) ==
    <<"Name:", " ">> \o result.name
    \o <<" ", "Input:", " ">> \o Str(result.input)
    \o <<" ", "Expected:", " ">>
    \o (IF Truthy(result.expected) THEN Str(result.expected) ELSE <<"N/A">>)
    \o <<" ", "Actual:", " ">>
    \o (IF Truthy(result.actual) THEN Str(result.actual) ELSE <<"N/A">>)
    \o (IF Truthy(result.message) THEN <<" ", "Message:", " ">> \o Str(result.message)
        ELSE <<>>)
    \o <<" ", "Passed:", " ", IF result.status = "PASSED" THEN "True" ELSE "False",
          " ", "Description:", " ">> \o Str(result.description)

\* the line print_detailed_results prints for one record
ResultLine(result) ==
    LET passed == result.status = "PASSED"
        name == result.name
        description == Str(result.description)
        expected == IF Truthy(result.expected) THEN Str(result.expected)
                    ELSE <<"N/A">>
        actual == IF Truthy(result.actual) THEN Str(result.actual) ELSE <<"N/A">>
        input_value == result.input
        message == result.message
    IN  <<"Name:", " ">> \o name
        \o (IF Truthy(input_value)
            THEN <<" ", "Input:", " ">> \o Str(input_value) ELSE <<>>)
        \o <<" ", "Expected:", " ">> \o expected
        \o <<" ", "Actual:", " ">> \o actual
        \o (IF Truthy(message) THEN <<" ", "Message:", " ">> \o Str(message)
            ELSE <<>>)
        \o <<" ", "Passed:", " ", IF passed THEN "True" ELSE "False", " ",
              "Description:", " ">> \o description

RECURSIVE PrintResults_Reversed(_)
\* the loop of print_detailed_results going through the records backwards
PrintResults_Reversed(store) ==
    IF store = <<>> THEN <<>>
    ELSE PrintResults_Reversed(Tail(store))
         \o <<<<"new">>, ResultLine(Head(store))>>

RECURSIVE PrintResults(_)
\* the loop of print_detailed_results
PrintResults(store) ==
    IF store = <<>> THEN <<>>
    ELSE <<<<"new">>, ResultLine(Head(store))>> \o PrintResults(Tail(store))

print_detailed_results(store) ==
    <<Words(<<"Starting", "Tests">>)>> \o PrintResults(store)
    \o <<Words(<<"Ending", "Tests">>)>>

\* print_json_results reporting suite.countTestCases() as total_tests
print_json_results_TestCount ==
    [framework |-> "Enhanced Testing Framework for JuiceMind IDE (Python)",
     total_tests |-> Len(TestMethods(requested)),
     tests |-> storage]

print_json_results ==
    [framework |-> "Enhanced Testing Framework for JuiceMind IDE (Python)",
     total_tests |-> Len(storage),
     tests |-> storage]

\* the suite has run: the reports are printed and the JSON object returned
run_test_class_return ==
    /\ pc = "running" /\ suite.methods = <<>>
    /\ printed' = print_detailed_results(storage)
    /\ ret' = print_json_results
    /\ pc' = "idle"
    /\ suite' = NoSuite
    /\ cur' = NoData
    /\ UNCHANGED <<storage, storageRun, test, success, calls, bodyOut, base,
                   lastCall, lastErr, authorMsg, run, requested, execRun, cleared>>

----------------------------------------------------------------------------
(* One test: TestCase.run *)

\* result.startTest(test), for the next method of the suite
StartTest(dec, message, input_value) ==
    /\ pc = "running" /\ suite.methods # <<>>
    /\ dec \in MethodDecorators(Head(suite.methods))
    /\ LET name == Head(suite.methods)
           doc == IF dec = "none" THEN TestDoc(name) ELSE PyNone
       IN  /\ cur' = startTest(name, doc, suite.cls)
           /\ test' = [name |-> name, dec |-> dec, arg |-> DecoratorArg(dec),
                       message |-> message, input_value |-> input_value]
    /\ pc' = "setUp"
    /\ success' = TRUE
    /\ calls' = 0
    /\ bodyOut' = NoOut
    /\ lastCall' = NoCall
    /\ lastErr' = NoExc
    /\ authorMsg' = (message # PyNone)
    /\ base' = Len(storage)
    /\ UNCHANGED <<storage, storageRun, suite, run, requested, execRun, cleared,
                   ret, printed>>

\* self.setUp(), then the test method is entered: a wrapper records its input
SetUp ==
    /\ pc = "setUp"
    /\ cur' = IF test.dec = "none" THEN setUp(cur)
              ELSE wrapper_enter(setUp(cur), test.input_value)
    /\ pc' = "body"
    /\ UNCHANGED <<storage, storageRun, test, suite, success, calls, bodyOut,
                   base, lastCall, lastErr, authorMsg, run, requested, execRun,
                   cleared, ret, printed>>

\* The test method ends with outcome out, its record being d: the wrapper, if
\* any, is left, and unittest reports the exception that leaves the method.
EndBody(d, out) ==
    LET r == IF test.dec = "none" THEN Result(d, out.exc)
             ELSE wrapper_exit(test.dec, d, test.arg, test.message, out)
        st == report([data |-> r.data, store |-> storage], r.exc)
    IN  /\ cur' = st.data
        /\ storage' = st.store
        /\ storageRun' = Stamp(Len(st.store))
        /\ success' = (r.exc = NoExc)
        /\ lastErr' = r.exc
        /\ bodyOut' = out
        /\ pc' = "tearDown"

\* the test method returns v (an undecorated method returns None)
BodyReturns(v) ==
    /\ pc = "body"
    /\ test.dec = "none" => v = PyNone
    /\ EndBody(cur, Returned(v))
    /\ UNCHANGED <<test, suite, calls, base, lastCall, authorMsg, run, requested,
                   execRun, cleared, ret, printed>>

\* the test method's own code raises e
BodyRaises(e) ==
    /\ pc = "body"
    /\ EndBody(cur, Raised(e))
    /\ UNCHANGED <<test, suite, calls, base, lastCall, authorMsg, run, requested,
                   execRun, cleared, ret, printed>>

\* A helper call of the test method gave r: the method goes on, or the
\* exception the helper raised ends it.
AfterCall(r, call, supplied) ==
    /\ lastCall' = [call EXCEPT !.exc = r.exc]
    /\ calls' = calls + 1
    /\ authorMsg' = (authorMsg \/ supplied)
    /\ IF r.exc = NoExc
       THEN /\ cur' = r.data
            /\ UNCHANGED <<storage, storageRun, pc, success, bodyOut, lastErr>>
       ELSE EndBody(r.data, Raised(r.exc))
    /\ UNCHANGED <<test, suite, base, run, requested, execRun, cleared, ret,
                   printed>>

\* an undecorated test method may call a helper
CanCall == pc = "body" /\ test.dec = "none" /\ calls < MaxCalls

CallSetExpectedActual(expected, actual, message) ==
    /\ CanCall
    /\ AfterCall(Result(set_expected_actual(cur, expected, actual, message), NoExc),
                 [NoCall EXCEPT !.op = "set_expected_actual", !.message = message],
                 message # PyNone)

CallSetInput(input_value) ==
    /\ CanCall
    /\ AfterCall(Result(set_input(cur, input_value), NoExc),
                 [NoCall EXCEPT !.op = "set_input", !.arg = DirectValue(input_value)],
                 FALSE)

CallSetMessage(message) ==
    /\ CanCall
    /\ AfterCall(Result(set_message(cur, message), NoExc),
                 [NoCall EXCEPT !.op = "set_message", !.message = message], TRUE)

CallSetDescriptionAndMessage(description, message) ==
    /\ CanCall
    /\ AfterCall(Result(set_description_and_message(cur, description, message),
                        NoExc),
                 [NoCall EXCEPT !.op = "set_description_and_message",
                                !.message = message], TRUE)

CallAssertSafeCallAndCapture(callable_or_value, expected, message) ==
    /\ CanCall
    /\ AfterCall(assertSafeCallAndCapture(cur, callable_or_value, expected, message),
                 [NoCall EXCEPT !.op = "assertSafeCallAndCapture",
                                !.arg = callable_or_value,
                                !.expected = expected, !.message = message],
                 message # PyNone)

CallAssertCallAndCapture(callable_func, expected, message) ==
    /\ CanCall
    /\ AfterCall(assertCallAndCapture(cur, callable_func, expected, message),
                 [NoCall EXCEPT !.op = "assertCallAndCapture",
                                !.arg = callable_func,
                                !.expected = expected, !.message = message],
                 message # PyNone)

CallSafeTestWrapper(test_func, expected, message) ==
    /\ CanCall
    /\ AfterCall(safe_test_wrapper(cur, test_func, expected, message),
                 [NoCall EXCEPT !.op = "safe_test_wrapper", !.arg = test_func,
                                !.expected = expected, !.message = message],
                 message # PyNone)

\* the arguments the test methods give to the assert-and-capture helpers
AssertArguments(op) ==
    CASE op = "assertEqualAndCapture" ->
             {<<PyInt("15"), PyInt("15")>>, <<PyInt("12"), PyInt("15")>>}
      [] op \in {"assertInAndCapture", "assertNotInAndCapture"} ->
             {<<PyInt("5"), InputList>>, <<PyInt("12"), InputList>>,
              <<PyInt("5"), PyNone>>}
      [] op = "assertContainsAndCapture" ->
             {<<PyStr(<<"sum:", " ", "15">>), PyStr(<<"15">>)>>,
              <<PyStr(<<"sum:", " ", "15">>), PyStr(<<"12">>)>>,
              <<PyNone, PyStr(<<"15">>)>>}
      [] op \in {"assertGreaterAndCapture", "assertLessAndCapture",
                 "assertGreaterEqualAndCapture", "assertLessEqualAndCapture"} ->
             {<<PyInt("15"), PyInt("12")>>, <<PyInt("12"), PyInt("15")>>,
              <<PyStr(<<"15">>), PyInt("12")>>}
      [] op = "assertIsInstanceAndCapture" ->
             {<<PyInt("15"), PyType("int")>>, <<PyStr(<<"15">>), PyType("int")>>}
      [] op = "assertIsNoneAndCapture" ->
             {<<PyNone, PyNone>>, <<PyInt("15"), PyNone>>}

CallAssertAndCapture(op, a, b, message) ==
    /\ CanCall
    /\ AfterCall(assert_and_capture(op, cur, a, b, message),
                 [NoCall EXCEPT !.op = op, !.message = message],
                 message # PyNone)

\* self.tearDown() of a class of undecorated tests calls a helper: the hook
\* for a test method that raised has fired before
TearDownCalls(message) ==
    /\ pc = "tearDown" /\ test.dec = "none" /\ calls < MaxCalls
    /\ cur' = set_expected_actual(cur, PyInt("0"), PyInt("0"), message)
    /\ calls' = calls + 1
    /\ lastCall' = [NoCall EXCEPT !.op = "set_expected_actual",
                                  !.message = message]
    /\ authorMsg' = (authorMsg \/ message # PyNone)
    /\ UNCHANGED <<storage, storageRun, pc, test, suite, success, bodyOut, base,
                   lastErr, run, requested, execRun, cleared, ret, printed>>

\* self.tearDown(), which a test class may define and which may raise; then,
\* if no part of the test raised, result.addSuccess(test)
TearDown(raises) ==
    /\ pc = "tearDown"
    /\ LET st0 == [data |-> cur, store |-> storage]
           st1 == IF raises THEN report(st0, TearDownErr) ELSE st0
           st2 == IF success /\ ~raises THEN addSuccess(st1) ELSE st1
       IN  /\ cur' = st2.data
           /\ storage' = st2.store
           /\ storageRun' = Stamp(Len(st2.store))
           /\ success' = (success /\ ~raises)
           /\ lastErr' = IF raises THEN TearDownErr
                         ELSE IF success THEN NoExc ELSE lastErr
    /\ pc' = "stopTest"
    /\ UNCHANGED <<test, suite, calls, bodyOut, base, lastCall, authorMsg, run,
                   requested, execRun, cleared, ret, printed>>

\* result.stopTest(test): the test is complete
StopTest ==
    /\ pc = "stopTest"
    /\ pc' = "running"
    /\ suite' = [suite EXCEPT !.methods = Tail(@)]
    /\ test' = NoTest
    /\ bodyOut' = NoOut
    /\ lastCall' = NoCall
    /\ calls' = 0
    /\ success' = TRUE
    /\ lastErr' = NoExc
    /\ authorMsg' = FALSE
    /\ UNCHANGED <<storage, storageRun, cur, base, run, requested, execRun,
                   cleared, ret, printed>>

\* arguments of the tolerant helpers
Arguments ==
    {DirectValue(v) : v \in {PyInt("15"), PyInt("12")}}
    \cup {Returns(v) : v \in {PyInt("15"), PyStr(<<"15", "\n">>)}}
    \cup {Raises(e) : e \in BodyExceptions}

Next ==
    \/ \E n \in ClassNames : run_test_class_ImportError(n)
    \/ \E n \in ClassNames : run_test_class_Exception(n)
    \/ \E n \in ClassNames : run_test_class_SystemExit(n)
    \/ \E n \in ClassNames : run_test_class_run(n)
    \/ run_test_class_return
    \/ \E dec \in Decorators, o \in DecoratorOptions :
          StartTest(dec, o.message, o.input_value)
    \/ StartTest("none", PyNone, PyNone)
    \/ SetUp
    \/ \E v \in Values : BodyReturns(v)
    \/ \E e \in BodyExceptions : BodyRaises(e)
    \/ \E a \in {PyInt("15"), PyInt("12")}, m \in Messages :
          CallSetExpectedActual(PyInt("15"), a, m)
    \/ \E i \in {InputList, InputDict, PyInt("5")} : CallSetInput(i)
    \/ \E m \in Messages : CallSetMessage(m)
    \/ \E m \in {PyNone, CustomMessage} :
          CallSetDescriptionAndMessage(PyStr(Words(<<"Adds", "numbers">>)), m)
    \/ \E a \in Arguments, m \in {PyNone, CustomMessage} :
          CallAssertSafeCallAndCapture(a, PyInt("15"), m)
    \/ \E a \in Arguments, m \in {PyNone, CustomMessage} :
          CallSafeTestWrapper(a, PyInt("15"), m)
    \/ \E a \in Arguments, m \in {PyNone, CustomMessage} :
          CallAssertCallAndCapture(a, PyInt("15"), m)
    \/ \E op \in AssertAndCapture, m \in {PyNone, CustomMessage} :
          \E ab \in AssertArguments(op) : CallAssertAndCapture(op, ab[1], ab[2], m)
    \/ \E m \in {PyNone, TearDownMessage} : TearDownCalls(m)
    \/ \E raises \in BOOLEAN : TearDown(raises)
    \/ StopTest

Spec == Init /\ [][Next]_vars

----------------------------------------------------------------------------
(* The descriptions of test names: startTest applied to the names that     *)
(* start with "test", grown one character at a time                        *)

NameChars == {"a", "b", "A", "B", "_"}

InitNames == Init

\* result.startTest(test) for a test method whose name is the last one with the
\* character c added
StartNamed(c) ==
    /\ pc = "idle"
    /\ Len(test.name) < 4 + MaxNameLen
    /\ LET name == IF test.name = <<>> THEN <<"t", "e", "s", "t", c>>
                   ELSE Append(test.name, c)
       IN  /\ test' = [test EXCEPT !.name = name]
           /\ cur' = startTest(name, PyNone, "NameTests")
    /\ UNCHANGED <<storage, storageRun, pc, suite, success, calls, bodyOut, base,
                   lastCall, lastErr, authorMsg, run, requested, execRun, cleared,
                   ret, printed>>

NextNames == \E c \in NameChars : StartNamed(c)

SpecNames == InitNames /\ [][NextNames]_vars

----------------------------------------------------------------------------
(* Properties *)

Terminal == {"PASSED", "FAILED", "ERROR"}

\* the records appended for the test being run
TestRecords == {i \in 1..Len(storage) : i > base}

\* how a test method that ends with exception e is reported
Outcome(e) ==
    IF e = NoExc THEN "PASSED"
    ELSE IF IsAssertionError(e) THEN "FAILED" ELSE "ERROR"

\* C1: every completed test has reached exactly one terminal status and has
\* exactly one record in the collector, and no stored record is RUNNING.
C1_ExactlyOneTerminalRecord ==
    /\ \A i \in 1..Len(storage) : storage[i].status # "RUNNING"
    /\ pc = "stopTest" => (Len(storage) = base + 1 /\ cur.status \in Terminal)

\* C2: every stored record has a message that is a non-empty string.
C2_StoredMessageNonEmpty ==
    \A i \in 1..Len(storage) :
        storage[i].message.type = "str" /\ storage[i].message.text # <<>>

\* a failure was stored with the default message after set_message had left
\* the record without one
C2_Witness ==
    /\ pc = "stopTest" /\ lastCall.op = "set_message"
    /\ storage # <<>>
    /\ storage[Len(storage)].status = "FAILED"
    /\ storage[Len(storage)].message = PyStr(FailureMessage(Str(UserAssertion)))

ExpectedActualTogether(d) ==
    \/ d = NoData
    \/ d.expected = PyNone /\ d.actual = PyNone
    \/ d.expected.type = "str" /\ d.actual.type = "str"

\* C3: in the test's record and in every stored record, expected and actual
\* are both None or both strings.
C3_ExpectedActualTogether ==
    /\ ExpectedActualTogether(cur)
    /\ \A i \in 1..Len(storage) : ExpectedActualTogether(storage[i])

\* a running record holds a captured pair while the collector holds a record
\* without one
C3_Witness ==
    /\ pc = "tearDown" /\ cur.expected.type = "str" /\ cur.actual.type = "str"
    /\ \E i \in 1..Len(storage) : storage[i].expected = PyNone

\* C4: a decorated test whose body raises an exception that is no assertion
\* failure ends FAILED, never ERROR, with expected recorded and an actual that
\* contains the exception's text.
C4_WrapperErrorIsFailure ==
    (/\ pc = "stopTest" /\ test.dec \in Decorators
     /\ bodyOut.exc # NoExc /\ ~IsAssertionError(bodyOut.exc))
    => /\ cur.status = "FAILED"
       /\ \A i \in TestRecords : storage[i].status = "FAILED"
       /\ cur.expected.type = "str"
       /\ cur.actual.type = "str"
       /\ Contains(cur.actual.text, Str(bodyOut.exc))

\* C5: a test decorated with safe_test(expected), without a message, whose body
\* returns v ends PASSED if v equals expected and FAILED otherwise, with the
\* string forms of expected and v recorded, and the message of the failure
\* contains both string forms.
C5_SafeTestOutcome ==
    (/\ pc = "stopTest" /\ test.dec = "safe_test" /\ test.message = PyNone
     /\ bodyOut.exc = NoExc)
    => /\ cur.status = IF bodyOut.ret = test.arg THEN "PASSED" ELSE "FAILED"
       /\ cur.expected = PyStr(Str(test.arg))
       /\ cur.actual = PyStr(Str(bodyOut.ret))
       /\ cur.status = "FAILED" =>
              /\ Contains(cur.message.text, Str(test.arg))
              /\ Contains(cur.message.text, Str(bodyOut.ret))

\* C6: when the producer given to assertSafeCallAndCapture raises, the helper
\* does not let that exception out: it records expected and a description of
\* the error as actual and fails, and the test ends FAILED, never ERROR.
C6_SafeCallNeverPropagates ==
    (/\ pc = "stopTest" /\ lastCall.op = "assertSafeCallAndCapture"
     /\ lastCall.arg.callable /\ lastCall.arg.exc # NoExc)
    => /\ lastCall.exc # lastCall.arg.exc
       /\ IsAssertionError(lastCall.exc)
       /\ cur.expected = PyStr(Str(lastCall.expected))
       /\ cur.actual.type = "str"
       /\ Contains(cur.actual.text, Str(lastCall.arg.exc))
       /\ cur.status = "FAILED"
       /\ \A i \in TestRecords : storage[i].status = "FAILED"

\* C7: when the author supplied no message, a record finalized as PASSED has
\* the default success message, and a record finalized as FAILED or ERROR has
\* a message that contains the text of the exception given to the hook.
C7_DefaultMessageEmbedsText ==
    (/\ pc \in {"tearDown", "stopTest"} /\ ~authorMsg /\ TestRecords # {})
    => LET r == storage[Len(storage)]
       IN  /\ r.status = "PASSED" => r.message = PyStr(SuccessMessage)
           /\ r.status \in {"FAILED", "ERROR"} =>
                  /\ r.message.type = "str"
                  /\ Contains(r.message.text, Str(lastErr))

\* C8: for every argument, safe_test_wrapper and assertSafeCallAndCapture leave
\* the same expected and actual in the record and give the test the same
\* outcome.
C8_TolerantHelpersEquivalent ==
    (pc = "body" /\ test.dec = "none")
    => \A a \in Arguments, m \in {PyNone, CustomMessage} :
           LET r1 == assertSafeCallAndCapture(cur, a, PyInt("15"), m)
               r2 == safe_test_wrapper(cur, a, PyInt("15"), m)
           IN  /\ r1.data.expected = r2.data.expected
               /\ r1.data.actual = r2.data.actual
               /\ Outcome(r1.exc) = Outcome(r2.exc)

\* C9, as claimed: after any sequence of calls of run_test_class the
\* collector holds only records of the most recent call.
C9_OnlyLatestCall ==
    \A i \in 1..Len(storage) : storageRun[i] = run

\* C9, amended: the collector holds only records of the most recent call that
\* made an EnhancedTestResult, that is, that resolved its class and ran the
\* suite.
C9_OnlyLatestExecutedRun ==
    \A i \in 1..Len(storage) : storageRun[i] = execRun

\* a second run dropped the records of the first and stored its own
C9_Witness ==
    execRun = 2 /\ cleared > 0 /\ storage # <<>>

\* a call of run_test_class that did not resolve its class has just returned
Unresolved == run' = run + 1 /\ requested' \notin WithClass

C11_NoExceptionEscapes ==
    (pc = "idle" /\ run > 0)
    => /\ "raised" \notin DOMAIN ret
       /\ ("error" \in DOMAIN ret) # ("tests" \in DOMAIN ret)

\* the "new" lines of a text report
NewLines(lines) == {k \in 1..Len(lines) : lines[k] = <<"new">>}

\* run_test_class has returned its JSON report
Reported == pc = "idle" /\ "tests" \in DOMAIN ret

\* C12: for an executed class, total_tests of the JSON report, the length of
\* its tests array and the number of "new" lines of the text report of the
\* same run are equal.
C12_CountsAgree ==
    Reported
    => /\ ret.total_tests = Len(ret.tests)
       /\ ret.total_tests = Cardinality(NewLines(printed))

\* a run was reported in which one test left two records
C12_Witness ==
    /\ Reported /\ ret.total_tests = 3
    /\ Cardinality(NewLines(printed)) = 3

\* C13: an assert-and-capture helper records expected and actual before its
\* plain assertion fails, so the record that such a failure finalizes as
\* FAILED has expected and actual populated.
C13_CapturedBeforeAssertion ==
    (/\ pc \in {"tearDown", "stopTest"}
     /\ lastCall.op \in AssertAndCapture /\ IsAssertionError(lastCall.exc))
    => LET r == storage[base + 1]
       IN  /\ r.status = "FAILED"
           /\ r.expected.type = "str" /\ Truthy(r.expected)
           /\ r.actual.type = "str" /\ Truthy(r.actual)

\* the first helper call of a test was an equality that did not hold, and the
\* FAILED record holds the two values
C13_Witness ==
    /\ pc = "tearDown" /\ calls = 1
    /\ lastCall.op = "assertEqualAndCapture" /\ IsAssertionError(lastCall.exc)
    /\ storage[base + 1].status = "FAILED"
    /\ storage[base + 1].expected = PyStr(<<"15">>)
    /\ storage[base + 1].actual = PyStr(<<"12">>)

\* C14: assertCallAndCapture(producer, expected).  When the producer returns
\* v, expected and v are recorded and the helper fails exactly when v differs
\* from expected.  When the producer raises an exception that is no assertion
\* failure, expected and a description of the error are recorded and the test
\* ends FAILED.  When the producer raises an assertion failure, the helper
\* raises that same failure.
C14_CallAndCapture ==
    (/\ pc = "stopTest" /\ lastCall.op = "assertCallAndCapture"
     /\ lastCall.arg.callable)
    => LET e == lastCall.arg.exc
           v == lastCall.arg.ret
       IN  /\ e = NoExc =>
                  /\ cur.expected = PyStr(Str(lastCall.expected))
                  /\ cur.actual = PyStr(Str(v))
                  /\ IsAssertionError(lastCall.exc) <=> v # lastCall.expected
                  /\ lastCall.exc = NoExc <=> v = lastCall.expected
           /\ (e # NoExc /\ ~IsAssertionError(e)) =>
                  /\ cur.expected = PyStr(Str(lastCall.expected))
                  /\ cur.actual.type = "str"
                  /\ Contains(cur.actual.text, Str(e))
                  /\ cur.status = "FAILED"
                  /\ \A i \in TestRecords : storage[i].status = "FAILED"
           /\ IsAssertionError(e) => lastCall.exc = e

\* the records a step appends to the collector
Appended(i) == i > Len(storage) /\ i <= Len(storage')

\* the helpers whose message argument is optional
OptionalMessage ==
    AssertAndCapture
    \cup {"set_expected_actual", "assertCallAndCapture", "assertSafeCallAndCapture",
          "safe_test_wrapper"}

\* C15: a helper call that supplies a non-empty message puts it into the
\* record at once; a helper call without a message, and every later step of
\* the test, leaves a message that was supplied as it is; and a record is
\* stored with the message supplied last, whatever its status.
C15_SuppliedMessageKept ==
    [][/\ (calls' = calls + 1 /\ Truthy(lastCall'.message)) =>
              /\ cur'.message = lastCall'.message
              /\ \A i \in 1..Len(storage') :
                     Appended(i) => storage'[i].message = lastCall'.message
       /\ (/\ pc \in {"body", "tearDown"} /\ Truthy(cur.message)
           /\ calls' = calls + 1 =>
                  (lastCall'.op \in OptionalMessage /\ lastCall'.message = PyNone))
          => /\ cur'.message = cur.message
             /\ \A i \in 1..Len(storage') :
                    Appended(i) => storage'[i].message = cur.message]_vars

\* C16: set_input stores, for a list, the string forms of its elements joined
\* by the newline character; for a dict, its serialized form; for anything
\* else, its string form.
C16_SetInputRendering ==
    (pc = "body" /\ lastCall.op = "set_input")
    => LET v == lastCall.arg.ret
       IN  cur.input = PyStr(CASE v.type = "list" -> JoinStr(<<"\n">>, v.items)
                               [] v.type = "dict" -> json_dumps(v)
                               [] OTHER -> Str(v))

\* the test name without its prefix, as the claim strips it
Stripped(name) ==
    IF StartsWith(name, <<"t", "e", "s", "t", "_">>) THEN SubSeq(name, 6, Len(name))
    ELSE IF StartsWith(name, <<"t", "e", "s", "t">>) THEN SubSeq(name, 5, Len(name))
         ELSE name

\* the camelCase boundaries of a name up to index i: an upper case character
\* after a lower case one
Boundaries(name, i) ==
    {j \in 2..i : IsUpper(name[j]) /\ IsLower(name[j - 1])}

Segment(line, label) == Contains(line, <<" ", label, " ">>)

\* C18: in the text report each record has its line, with one "new" line
\* before it; the line says Passed: True exactly when the record is PASSED,
\* and it has an Input segment and a Message segment exactly when the
\* record's input and message are non-empty.
C18_TextReport ==
    Reported
    => /\ Len(printed) = 2 * Len(ret.tests) + 2
       /\ \A i \in 1..Len(ret.tests) :
              LET r == ret.tests[i]
                  line == printed[2 * i + 1]
              IN  /\ printed[2 * i] = <<"new">>
                  /\ printed[2 * i - 1] # <<"new">>
                  /\ StartsWith(line, <<"Name:", " ">> \o r.name)
                  /\ Contains(line, <<" ", "Passed:", " ", "True", " ">>)
                         <=> r.status = "PASSED"
                  /\ Contains(line, <<" ", "Passed:", " ", "False", " ">>)
                         <=> r.status # "PASSED"
                  /\ Segment(line, "Input:") <=> Truthy(r.input)
                  /\ Segment(line, "Message:") <=> Truthy(r.message)

\* a report of a PASSED record with an input and an ERROR record without one
C18_Witness ==
    /\ Reported
    /\ \E i, j \in 1..Len(ret.tests) :
           /\ ret.tests[i].status = "PASSED" /\ Truthy(ret.tests[i].input)
           /\ ret.tests[j].status = "ERROR" /\ ~Truthy(ret.tests[j].input)
           /\ Segment(printed[2 * i + 1], "Input:")
           /\ ~Segment(printed[2 * j + 1], "Input:")

\* C19: a record in the collector is a copy: no step of a run (a helper call
\* after the hook, a later hook, the start of the next test) changes a field
\* of a record that is in the collector.
C19_StoredRecordsFrozen ==
    [][pc # "idle" =>
          \A i \in 1..Len(storage) : i <= Len(storage') /\ storage'[i] = storage[i]
      ]_vars

\* tearDown has called a helper after the test's failure was stored, and the
\* stored record does not have what the helper set
C19_Witness ==
    /\ pc = "stopTest" /\ Len(storage) = base + 2
    /\ storage[base + 1].status = "FAILED"
    /\ storage[base + 1].message # TearDownMessage
    /\ storage[base + 1].expected # PyStr(<<"0">>)
    /\ storage[base + 2].status = "ERROR"
    /\ storage[base + 2].message = TearDownMessage
    /\ storage[base + 2].expected = PyStr(<<"0">>)

\* the records of the collector before a step are the first records after it
Extended ==
    Len(storage') >= Len(storage) /\ SubSeq(storage', 1, Len(storage)) = storage

\* the place of a test method in its class
MethodIndex(cls, name) ==
    CHOOSE k \in 1..Len(TestMethods(cls)) : TestMethods(cls)[k] = name

\* C20: the collector holds the records in the order in which the tests
\* reached their hooks: a step of a run only appends, at the end, records of
\* the test that is running, so the records follow the order of the tests;
\* and the JSON tests array and the lines of the text report have the
\* records in the collector's order.
C20_InsertionOrder ==
    /\ [][pc # "idle" =>
             /\ Extended
             /\ \A i \in 1..Len(storage') :
                    Appended(i) => /\ storage'[i].name = test.name
                                   /\ storage'[i].status \in Terminal]_vars
    /\ [](\A i, j \in 1..Len(storage) :
              i <= j => MethodIndex(storage[i].class_name, storage[i].name)
                            <= MethodIndex(storage[j].class_name, storage[j].name))
    /\ [](Reported =>
              /\ ret.tests = storage
              /\ \A i \in 1..Len(storage) :
                     StartsWith(printed[2 * i + 1],
                                <<"Name:", " ">> \o storage[i].name
                                \o <<" ">>))

\* a report of three records of two tests, the second test having reached
\* two hooks
C20_Witness ==
    /\ Reported /\ Len(storage) = 3
    /\ storage[1].name = testAddTwo
    /\ storage[2].name = test_add_two_numbers /\ storage[2].status = "FAILED"
    /\ storage[3].name = test_add_two_numbers /\ storage[3].status = "ERROR"
    /\ StartsWith(printed[7], <<"Name:", " ">> \o test_add_two_numbers)

\* C21: a wrapper that is given an input value has written it to the record,
\* as set_input renders it, when the test method it wraps starts, and every
\* record stored for the test carries it: whether the method returned a
\* value that passes the comparison, returned one that fails it, or raised.
C21_InputBeforeBody ==
    (test.dec \in Decorators /\ test.input_value # PyNone) =>
        /\ pc = "body" =>
               /\ cur.input # PyNone
               /\ cur.input = set_input(cur, test.input_value).input
        /\ \A i \in TestRecords :
               /\ storage[i].input # PyNone
               /\ storage[i].input = set_input(cur, test.input_value).input

\* the method under a wrapper with an input raised an AssertionError of its
\* own: the stored record has no expected value, and has the input
C21_Witness ==
    /\ pc = "tearDown" /\ test.dec = "safe_greater"
    /\ test.input_value = InputList
    /\ bodyOut = Raised(UserAssertion)
    /\ Len(storage) = base + 1
    /\ storage[base + 1].status = "FAILED"
    /\ storage[base + 1].expected = PyNone
    /\ storage[base + 1].input = PyStr(<<"10", "\\n", "5">>)

\* C22: when the method under a wrapper, or the producer given to
\* assertCallAndCapture, raises an AssertionError, that same error leaves the
\* wrapper or the helper and nothing is recorded for it: expected and actual
\* keep the values they had (None under a wrapper), and the test's record
\* ends FAILED.  Every other way in which a wrapped test does not pass has
\* recorded expected and actual.
C22_AssertionNotCaptured ==
    /\ []((pc = "stopTest" /\ test.dec \in Decorators) =>
              /\ IsAssertionError(bodyOut.exc) =>
                     /\ cur.expected = PyNone /\ cur.actual = PyNone
                     /\ cur.status = "FAILED"
                     /\ \A i \in TestRecords : storage[i].status = "FAILED"
              /\ (cur.status # "PASSED" /\ ~IsAssertionError(bodyOut.exc)) =>
                     cur.expected # PyNone /\ cur.actual # PyNone)
    /\ [][(/\ pc = "body" /\ calls' = calls + 1
           /\ lastCall'.op = "assertCallAndCapture"
           /\ IsAssertionError(lastCall'.arg.exc))
          => /\ lastCall'.exc = lastCall'.arg.exc
             /\ cur'.expected = cur.expected /\ cur'.actual = cur.actual
             /\ cur'.status = "FAILED"
             /\ Len(storage') = Len(storage) + 1]_vars
    /\ []((/\ pc = "stopTest" /\ lastCall.op = "assertCallAndCapture"
           /\ IsAssertionError(lastCall.arg.exc))
          => /\ cur.status = "FAILED"
             /\ \A i \in TestRecords : storage[i].status = "FAILED")

\* the message with which a hook fills a record that has none
DefaultMessage(status, err) ==
    CASE status = "PASSED" -> PyStr(SuccessMessage)
      [] status = "FAILED" -> PyStr(FailureMessage(Strip(Str(err))))
      [] status = "ERROR" -> PyStr(ErrorMessage(Strip(Str(err))))

\* the message argument of the step's helper call or, when the step leaves a
\* wrapper, of the wrapper
StepMessage ==
    IF calls' = calls + 1 THEN lastCall'.message
    ELSE IF pc = "body" THEN test.message ELSE PyNone

\* C23: a message argument that is empty, or false in another way, counts as
\* no message: a helper that takes the message through set_expected_actual
\* leaves the record's message as it was, and a hook that finds the record's
\* message empty stores the default message of its status.
C23_FalsyMessageNotSupplied ==
    [][(pc = "body" \/ pc = "tearDown") =>
          ((/\ calls' = calls + 1 /\ lastCall'.op \in OptionalMessage
            /\ ~Truthy(lastCall'.message))
               => IF Len(storage') = Len(storage) \/ Truthy(cur.message)
                  THEN cur'.message = cur.message
                  ELSE cur'.message = DefaultMessage(cur'.status, lastErr'))
          /\ ((~Truthy(cur.message) /\ ~Truthy(StepMessage))
               => \A i \in 1..Len(storage') :
                      Appended(i) =>
                          storage'[i].message
                              = DefaultMessage(storage'[i].status, lastErr'))
      ]_vars

\* set_expected_actual was called with the empty message after set_message
\* had set one, and the test passed with the message that was set
C23_Witness ==
    /\ pc = "stopTest" /\ calls = 2
    /\ lastCall.op = "set_expected_actual"
    /\ lastCall.message = PyStr(<<>>)
    /\ cur.message = CustomMessage
    /\ Len(storage) = base + 1
    /\ storage[base + 1].status = "PASSED"
    /\ storage[base + 1].message = CustomMessage

\* the step is a second hook for the test that is running: tearDown raises
\* after a hook has stored a record for the test
SecondHook ==
    /\ pc = "tearDown" /\ pc' = "stopTest"
    /\ lastErr' = TearDownErr
    /\ Len(storage) = base + 1

====
